---- MODULE Spec2Model ----
(***************************************************************************)
(* RetryingTcpStream (src/src/lib.rs): a TcpStream that falls back to a    *)
(* fresh ConnectFuture whenever an I/O call fails with an error other than *)
(* WouldBlock.  One action per public method; a method's nondeterministic  *)
(* inputs are the outcomes of the socket calls it makes.                   *)
(***************************************************************************)
EXTENDS Integers, Sequences, FiniteSets, TLC

VARIABLES addr,      \* RetryingTcpStream.addr
          settings,  \* RetryingTcpStream.settings (TcpStreamSettings)
          state,     \* RetryingTcpStream.state (ConnectionState)
          nextId,    \* identity the next TcpStream::connect() call gets
          dropped,   \* identities of the connections / attempts dropped so far
          alive,     \* FALSE when there is no wrapper (any more): the
                     \* construction failed, or a call has panicked
          debug,     \* the build has debug assertions enabled
          ret        \* what the last call did and returned

vars == <<addr, settings, state, nextId, dropped, alive, debug, ret>>

----------------------------------------------------------------------------
(* Bounds *)

\* Number of connection attempts (TcpStream::connect calls) a behaviour may start.
MaxConns == 3
\* Keep-alive durations range over 1..MaxKeepAlive seconds (plus None).
MaxKeepAlive == 1
\* Number of distinct socket addresses.
NumAddrs == 2

----------------------------------------------------------------------------
(* Values *)

Addrs == 1..NumAddrs

\* Option<Duration>: <<>> is None, <<d>> is Some(d).
None == <<>>
Some(d) == <<d>>
KeepAlives == {None} \cup {Some(d) : d \in 1..MaxKeepAlive}

TcpStreamSettings == [nodelay : BOOLEAN, keepalive : KeepAlives]

\* ConnectionState::ConnectFuture: an attempt towards target; spent once its
\* poll() has completed (Ready or Err).
ConnectFuture(id, target) ==
    [tag |-> "ConnectFuture", id |-> id, target |-> target, spent |-> FALSE]

\* ConnectionState::TcpStream: a live socket with its own options.  replay
\* tells how the socket relates to the cached settings: "none" for a socket
\* fresh from a connect, "done" once set_tcp_settings has replayed the cache
\* onto it, "adopted" for the socket the wrapper was built from.
TcpStream(id, peer, nodelay, keepalive) ==
    [tag |-> "TcpStream", id |-> id, peer |-> peer,
     nodelay |-> nodelay, keepalive |-> keepalive, replay |-> "none"]

\* Returned values carry their type: (), usize, Self, SocketAddr, bool,
\* Option<Duration>, &TcpStream.
Unit == <<"()", 0>>
Usize == <<"usize", 0>>
Wrapper == <<"Self", 0>>
SocketAddr(a) == <<"SocketAddr", a>>
Bool(b) == <<"bool", b>>
OptDuration(d) == <<"Option<Duration>", d>>
Ref(id) == <<"&TcpStream", id>>

\* Results: Ok(v), Ok(Async::NotReady), Err(kind), or a panic.
Ok(v) == [r |-> "Ok", kind |-> "-", val |-> v]
NotReady == [r |-> "NotReady", kind |-> "-", val |-> Unit]
Err(kind) == [r |-> "Err", kind |-> kind, val |-> Unit]
Panic == [r |-> "Panic", kind |-> "-", val |-> Unit]

\* Outcomes of ConnectFuture::poll.
ConnOutcomes == {"Ready", "NotReady", "ConnectionRefused"}
\* Outcomes of read / write / flush on the socket.
IoOutcomes == {Ok(Usize), Err("WouldBlock"), Err("ConnectionReset")}
\* Outcomes of poll_read_ready / poll_write_ready / poll_peek on the socket.
PollOutcomes == IoOutcomes \cup {NotReady}
\* Error kind of a failed setsockopt / getsockopt / getpeername.
SockErr == "InvalidInput"

IoOps == {"read", "write", "flush"}
PollOps == {"poll_read_ready", "poll_write_ready", "poll_peek"}
StreamOps == IoOps \cup PollOps

----------------------------------------------------------------------------
(* The wrapper as a value: the three fields of the struct, the allocator of *)
(* connection identities, and three records of the call in progress: log,   *)
(* the socket calls made so far, errs, those of them that failed, and       *)
(* resolved, the socket options and the cached settings at the moment       *)
(* poll_into_tcp_stream went from ConnectFuture to Ready.                   *)

Self == [addr |-> addr, settings |-> settings, state |-> state,
         nextId |-> nextId, dropped |-> dropped, log |-> <<>>, errs |-> <<>>,
         resolved |-> <<>>]

Ev(what, id) == [ev |-> what, id |-> id]

\* The element of a one-element set.  Only({e(x) : x \in {v}}) is e(v) with v
\* evaluated once: Rust's let x = v; e(x).
Only(S) == CHOOSE x \in S : TRUE

----------------------------------------------------------------------------
\* reset as a slip would write it: the attempt goes to another address.
reset_other_addr(s) ==
    [s EXCEPT !.state = ConnectFuture(s.nextId, (s.addr % NumAddrs) + 1),
              !.nextId = s.nextId + 1,
              !.dropped = s.dropped \cup {s.state.id},
              !.log = Append(s.log, Ev("reset", s.nextId))]

\* The call in progress makes socket call what on the current connection.
Logged(s, what) == [s EXCEPT !.log = Append(s.log, Ev(what, s.state.id))]

\* Socket call what of the call in progress fails with an error of this kind.
Raised(s, what, kind) ==
    [s EXCEPT !.errs = Append(s.errs, [ev |-> what, id |-> s.state.id,
                                       kind |-> kind])]

\* The call in progress has turned its ConnectFuture into a TcpStream.
Resolved(s) ==
    [s EXCEPT !.state.replay = "done",
              !.resolved = <<[id |-> s.state.id,
                              nodelay |-> s.state.nodelay,
                              keepalive |-> s.state.keepalive,
                              settings |-> s.settings]>>]

\* reset that closes the connection and leaves it in self.state.
reset_keeps_connection(s) ==
    [s EXCEPT !.nextId = s.nextId + 1,
              !.dropped = s.dropped \cup {s.state.id},
              !.log = Append(s.log, Ev("reset", s.nextId))]

(* fn reset(&mut self) *)
reset(s) ==
    [s EXCEPT !.state = ConnectFuture(s.nextId, s.addr),
              !.nextId = s.nextId + 1,
              !.dropped = s.dropped \cup {s.state.id},
              !.log = Append(s.log, Ev("reset", s.nextId))]

\* call_reset_if_io_is_closed2 without its reset.
call_reset_never(s, res) == [s |-> s, res |-> res]

\* call_reset_if_io_is_closed2 without the WouldBlock arm.
call_reset_on_any_error(s, res) ==
    IF res.r = "Err" THEN [s |-> reset(s), res |-> res] ELSE [s |-> s, res |-> res]

\* call_reset_if_io_is_closed2 that answers a reset with NotConnected in
\* place of the error it was given.
call_reset_hides_error(s, res) ==
    IF res.r = "Err" /\ res.kind # "WouldBlock"
    THEN [s |-> reset(s), res |-> Err("NotConnected")]
    ELSE [s |-> s, res |-> res]

(* fn call_reset_if_io_is_closed2(&mut self, res) *)
call_reset_if_io_is_closed2(s, res) ==
    IF res.r = "Err" /\ res.kind # "WouldBlock"
    THEN [s |-> reset(s), res |-> res]
    ELSE [s |-> s, res |-> res]

(* fn ref_tcp_stream(&self) *)
ref_tcp_stream(s) ==
    IF s.state.tag = "ConnectFuture" THEN Err("NotConnected") ELSE Ok(Ref(s.state.id))

(* fn set_nodelay(&mut self, nodelay = v); ok: the setsockopt succeeds *)
set_nodelay(s, v, ok) ==
    IF s.state.tag = "ConnectFuture"
    THEN [s |-> [s EXCEPT !.settings.nodelay = v], res |-> Ok(Unit)]
    ELSE IF ok
         THEN [s |-> [s EXCEPT !.state.nodelay = v,
                               !.settings.nodelay = v,
                               !.log = Append(s.log, Ev("set_nodelay", s.state.id))],
               res |-> Ok(Unit)]
         ELSE [s |-> Raised(s, "set_nodelay", SockErr), res |-> Err(SockErr)]

(* fn set_keepalive(&self, keepalive = v); ok: the setsockopt succeeds *)
set_keepalive(s, v, ok) ==
    IF ref_tcp_stream(s).r = "Err"
    THEN [s |-> s, res |-> ref_tcp_stream(s)]
    ELSE IF ok
         THEN [s |-> [s EXCEPT !.state.keepalive = v,
                               !.log = Append(s.log, Ev("set_keepalive", s.state.id))],
               res |-> Ok(Unit)]
         ELSE [s |-> Raised(s, "set_keepalive", SockErr), res |-> Err(SockErr)]

\* set_tcp_settings that stores the settings and leaves the socket alone.
set_tcp_settings_cache_only(s, tcp_settings, ndOk, kaOk) ==
    [s |-> [s EXCEPT !.settings = tcp_settings], res |-> Ok(Unit)]

(* fn set_tcp_settings(&mut self, tcp_settings) *)
set_tcp_settings(s, tcp_settings, ndOk, kaOk) ==
    Only({ IF a.res.r = "Err" THEN a
           ELSE Only({ IF b.res.r = "Err" THEN b
                       ELSE [s |-> [b.s EXCEPT !.settings = tcp_settings],
                             res |-> Ok(Unit)]
                       : b \in {set_keepalive(a.s, tcp_settings.keepalive, kaOk)} })
           : a \in {set_nodelay(s, tcp_settings.nodelay, ndOk)} })

\* poll_into_tcp_stream without the reset of its Err arm: the completed
\* future stays in place.
poll_into_tcp_stream_no_reset(s, c, ndOk, kaOk) ==
    IF s.state.tag = "TcpStream" THEN [s |-> s, res |-> Ok(Ref(s.state.id))]
    ELSE IF s.state.spent THEN [s |-> s, res |-> Panic]
    ELSE Only({
             CASE c = "NotReady" -> [s |-> p, res |-> NotReady]
               [] c = "Ready" ->
                    Only({ Only({ IF u.res.r = "Err" THEN u
                                  ELSE [s |-> Resolved(u.s),
                                        res |-> Ok(Ref(u.s.state.id))]
                                  : u \in {set_tcp_settings(t, t.settings,
                                                            ndOk, kaOk)} })
                           : t \in {[p EXCEPT !.state =
                                       TcpStream(s.state.id, s.state.target,
                                                 FALSE, None)]} })
               [] OTHER ->
                    [s |-> [Raised(p, "cf_poll", c) EXCEPT !.state.spent = TRUE],
                     res |-> Err(c)]
             : p \in {Logged(s, "cf_poll")} })

\* poll_into_tcp_stream that also resets when the replay of the settings
\* fails.
poll_into_tcp_stream_reset_on_replay_error(s, c, ndOk, kaOk) ==
    IF s.state.tag = "TcpStream" THEN [s |-> s, res |-> Ok(Ref(s.state.id))]
    ELSE IF s.state.spent THEN [s |-> s, res |-> Panic]
    ELSE Only({
             CASE c = "NotReady" -> [s |-> p, res |-> NotReady]
               [] c = "Ready" ->
                    Only({ Only({ IF u.res.r = "Err"
                                  THEN [s |-> reset(u.s), res |-> u.res]
                                  ELSE [s |-> Resolved(u.s),
                                        res |-> Ok(Ref(u.s.state.id))]
                                  : u \in {set_tcp_settings(t, t.settings,
                                                            ndOk, kaOk)} })
                           : t \in {[p EXCEPT !.state =
                                       TcpStream(s.state.id, s.state.target,
                                                 FALSE, None)]} })
               [] OTHER ->
                    Only({ [s |-> reset(q), res |-> Err(c)]
                           : q \in {[Raised(p, "cf_poll", c)
                                      EXCEPT !.state.spent = TRUE]} })
             : p \in {Logged(s, "cf_poll")} })

(* fn poll_into_tcp_stream(&mut self); c: what cf.poll() returns,          *)
(* ndOk, kaOk: whether the two setsockopt calls of the replay succeed      *)
poll_into_tcp_stream(s, c, ndOk, kaOk) ==
    IF s.state.tag = "TcpStream" THEN [s |-> s, res |-> Ok(Ref(s.state.id))]
    ELSE IF s.state.spent THEN [s |-> s, res |-> Panic]
    ELSE Only({
             CASE c = "NotReady" -> [s |-> p, res |-> NotReady]
               [] c = "Ready" ->
                    Only({ Only({ IF u.res.r = "Err" THEN u
                                  ELSE [s |-> Resolved(u.s),
                                        res |-> Ok(Ref(u.s.state.id))]
                                  : u \in {set_tcp_settings(t, t.settings,
                                                            ndOk, kaOk)} })
                           : t \in {[p EXCEPT !.state =
                                       TcpStream(s.state.id, s.state.target,
                                                 FALSE, None)]} })
               [] OTHER ->
                    Only({ [s |-> reset(q), res |-> Err(c)]
                           : q \in {[Raised(p, "cf_poll", c)
                                      EXCEPT !.state.spent = TRUE]} })
             : p \in {Logged(s, "cf_poll")} })

(* A call on the underlying tokio TcpStream: it is recorded in the call's  *)
(* trace and returns the outcome out.                                      *)
ts_call(s, op, out) ==
    [s |-> IF out.r = "Err" THEN Raised(Logged(s, op), op, out.kind)
                            ELSE Logged(s, op),
     res |-> out]

(* try_ready!(self.poll_into_tcp_stream()) followed by ts.op() and         *)
(* call_reset_if_io_is_closed2: the body shared by the three poll methods  *)
poll_method(s, op, c, ndOk, kaOk, out) ==
    Only({ IF p.res.r # "Ok" THEN p
           ELSE Only({ call_reset_if_io_is_closed2(f.s, f.res)
                       : f \in {ts_call(p.s, op, out)} })
           : p \in {poll_into_tcp_stream(s, c, ndOk, kaOk)} })

(* pub fn poll_read_ready(&mut self, mask) *)
poll_read_ready(s, c, ndOk, kaOk, out) ==
    poll_method(s, "poll_read_ready", c, ndOk, kaOk, out)

(* pub fn poll_write_ready(&mut self) *)
poll_write_ready(s, c, ndOk, kaOk, out) ==
    poll_method(s, "poll_write_ready", c, ndOk, kaOk, out)

(* pub fn poll_peek(&mut self, buf) *)
poll_peek(s, c, ndOk, kaOk, out) ==
    poll_method(s, "poll_peek", c, ndOk, kaOk, out)

\* io_method that hands a failure of poll_into_tcp_stream to
\* call_reset_if_io_is_closed2 too.
io_method_reset_again(s, op, c, ndOk, kaOk, out) ==
    Only({ CASE p.res.r = "Ok" ->
                   Only({ call_reset_if_io_is_closed2(f.s, f.res)
                          : f \in {ts_call(p.s, op, out)} })
             [] p.res.r = "NotReady" ->
                   call_reset_if_io_is_closed2(p.s, Err("WouldBlock"))
             [] OTHER -> call_reset_if_io_is_closed2(p.s, p.res)
           : p \in {poll_into_tcp_stream(s, c, ndOk, kaOk)} })

(* self.poll_into_tcp_stream()? followed by the match on Async and         *)
(* call_reset_if_io_is_closed2: the body shared by read, write and flush   *)
io_method(s, op, c, ndOk, kaOk, out) ==
    Only({ CASE p.res.r = "Ok" ->
                   Only({ call_reset_if_io_is_closed2(f.s, f.res)
                          : f \in {ts_call(p.s, op, out)} })
             [] p.res.r = "NotReady" ->
                   call_reset_if_io_is_closed2(p.s, Err("WouldBlock"))
             [] OTHER -> p
           : p \in {poll_into_tcp_stream(s, c, ndOk, kaOk)} })

(* impl Read: fn read(&mut self, buf) *)
read(s, c, ndOk, kaOk, out) == io_method(s, "read", c, ndOk, kaOk, out)

(* impl Write: fn write(&mut self, buf) *)
write(s, c, ndOk, kaOk, out) == io_method(s, "write", c, ndOk, kaOk, out)

(* impl Write: fn flush(&mut self) *)
flush(s, c, ndOk, kaOk, out) == io_method(s, "flush", c, ndOk, kaOk, out)

(* pub fn local_addr(&self); ok: getsockname succeeds *)
local_addr(s, ok) ==
    IF ref_tcp_stream(s).r = "Err" THEN [s |-> s, res |-> ref_tcp_stream(s)]
    ELSE [s |-> Logged(s, "local_addr"),
          res |-> IF ok THEN Ok(SocketAddr(0)) ELSE Err(SockErr)]

(* pub fn peer_addr(&self); ok: getpeername succeeds; dbg: debug build *)
peer_addr(s, ok, dbg) ==
    IF s.state.tag = "ConnectFuture" THEN [s |-> s, res |-> Ok(SocketAddr(s.addr))]
    ELSE IF ~ok THEN [s |-> Logged(s, "peer_addr"), res |-> Err(SockErr)]
    ELSE IF dbg /\ s.state.peer # s.addr
         THEN [s |-> Logged(s, "peer_addr"), res |-> Panic]
    ELSE [s |-> Logged(s, "peer_addr"), res |-> Ok(SocketAddr(s.state.peer))]

\* nodelay written like local_addr: self.ref_tcp_stream()?.nodelay().
nodelay_not_connected(s, ok, dbg) ==
    IF ref_tcp_stream(s).r = "Err" THEN [s |-> s, res |-> ref_tcp_stream(s)]
    ELSE IF ~ok THEN [s |-> Logged(s, "nodelay"), res |-> Err(SockErr)]
    ELSE [s |-> Logged(s, "nodelay"), res |-> Ok(Bool(s.state.nodelay))]

(* pub fn nodelay(&self); debug_assert!(r, ..) asserts r itself *)
nodelay(s, ok, dbg) ==
    IF ref_tcp_stream(s).r = "Err" THEN [s |-> s, res |-> Ok(Bool(s.settings.nodelay))]
    ELSE IF ~ok THEN [s |-> Logged(s, "nodelay"), res |-> Err(SockErr)]
    ELSE IF dbg /\ ~s.state.nodelay THEN [s |-> Logged(s, "nodelay"), res |-> Panic]
    ELSE [s |-> Logged(s, "nodelay"), res |-> Ok(Bool(s.state.nodelay))]

(* pub fn keepalive(&self) *)
keepalive(s, ok, dbg) ==
    IF ref_tcp_stream(s).r = "Err" THEN [s |-> s, res |-> Ok(OptDuration(s.settings.keepalive))]
    ELSE IF ~ok THEN [s |-> Logged(s, "keepalive"), res |-> Err(SockErr)]
    ELSE IF dbg /\ s.state.keepalive # s.settings.keepalive
         THEN [s |-> Logged(s, "keepalive"), res |-> Panic]
    ELSE [s |-> Logged(s, "keepalive"), res |-> Ok(OptDuration(s.state.keepalive))]

(* pub fn shutdown(&self, how); out: what the socket's shutdown returns *)
shutdown(s, out) ==
    IF ref_tcp_stream(s).r = "Err" THEN [s |-> s, res |-> ref_tcp_stream(s)]
    ELSE ts_call(s, "shutdown", out)

(* impl AsyncWrite: fn shutdown(&mut self); unimplemented!() while         *)
(* ConnectFuture                                                           *)
AsyncWrite_shutdown(s, out) ==
    IF s.state.tag = "ConnectFuture" THEN [s |-> s, res |-> Panic]
    ELSE ts_call(s, "AsyncWrite::shutdown", out)

(* pub fn is_in_tcp_state(&self) *)
is_in_tcp_state(s) == s.state.tag = "TcpStream"

(* pub fn connect_with_settings(addr, settings) *)
connect_with_settings(a, st) ==
    [addr |-> a, settings |-> st, state |-> ConnectFuture(1, a),
     nextId |-> 2, dropped |-> {}, log |-> <<>>, errs |-> <<>>,
     resolved |-> <<>>]

\* try_from that caches TcpStreamSettings::default() and never looks at the
\* socket's options.
try_from_default_settings(ts, ndOk, kaOk, paOk) ==
    [s |-> [addr |-> ts.peer,
            settings |-> [nodelay |-> FALSE, keepalive |-> None],
            state |-> [ts EXCEPT !.replay = "adopted"],
            nextId |-> 2, dropped |-> {}, log |-> <<>>, errs |-> <<>>,
            resolved |-> <<>>],
     res |-> IF paOk THEN Ok(Wrapper) ELSE Err(SockErr)]

(* impl TryFrom<tokio::net::TcpStream>: fn try_from(tcp_stream); ndOk,     *)
(* kaOk, paOk: the three reads of the socket (nodelay, keepalive,          *)
(* peer_addr) succeed.  On Err there is no wrapper: s is what it would     *)
(* have been.                                                              *)
try_from(ts, ndOk, kaOk, paOk) ==
    [s |-> [addr |-> ts.peer,
            settings |-> [nodelay |-> ts.nodelay, keepalive |-> ts.keepalive],
            state |-> [ts EXCEPT !.replay = "adopted"],
            nextId |-> 2, dropped |-> {}, log |-> <<>>, errs |-> <<>>,
            resolved |-> <<>>],
     res |-> IF ndOk /\ kaOk /\ paOk THEN Ok(Wrapper) ELSE Err(SockErr)]

----------------------------------------------------------------------------
(* Actions *)

Entry(a, st, s, n, d) ==
    [addr |-> a, settings |-> st, state |-> s, nextId |-> n, dropped |-> d]

(* A call returns: the struct's fields, and the record of the call. *)
Commit(s, op, arg, res) ==
    /\ s.nextId <= MaxConns + 1
    /\ addr' = s.addr
    /\ settings' = s.settings
    /\ state' = s.state
    /\ nextId' = s.nextId
    /\ dropped' = s.dropped
    /\ alive' = (res.r # "Panic")
    /\ debug' = debug
    /\ ret' = [op |-> op, arg |-> arg, res |-> res, log |-> s.log,
               errs |-> s.errs, resolved |-> s.resolved,
               entry |-> Entry(addr, settings, state, nextId, dropped)]

(* The outcomes a call can observe: a socket call the method does not     *)
(* reach has no outcome, and takes a fixed placeholder.                    *)
Connected == state.tag = "TcpStream"
ConnIn == IF Connected THEN {"Ready"} ELSE ConnOutcomes
NdIn(c) == IF ~Connected /\ c = "Ready" THEN BOOLEAN ELSE {TRUE}
KaIn(c, ndOk) == IF ~Connected /\ c = "Ready" /\ ndOk THEN BOOLEAN ELSE {TRUE}
OutIn(c, ndOk, kaOk, outs) ==
    IF Connected \/ (c = "Ready" /\ ndOk /\ kaOk) THEN outs ELSE {Ok(Usize)}
SockIn == IF Connected THEN BOOLEAN ELSE {TRUE}

(* The state a constructor leaves: r is its result, arg its arguments. *)
Constructed(r, op, arg) ==
    /\ addr = r.s.addr
    /\ settings = r.s.settings
    /\ state = r.s.state
    /\ nextId = r.s.nextId
    /\ dropped = r.s.dropped
    /\ alive = (r.res.r = "Ok")
    /\ debug \in BOOLEAN
    /\ ret = [op |-> op, arg |-> arg, res |-> r.res, log |-> <<>>,
              errs |-> <<>>, resolved |-> <<>>,
              entry |-> Entry(r.s.addr, r.s.settings, r.s.state, 1, {})]

Init ==
    \/ \E a \in Addrs, st \in TcpStreamSettings :
          Constructed([s |-> connect_with_settings(a, st), res |-> Ok(Wrapper)],
                      "connect_with_settings",
                      <<"args", [addr |-> a, settings |-> st]>>)
    \/ \E a \in Addrs, st \in TcpStreamSettings :
       \E ndOk \in BOOLEAN : \E kaOk \in IF ndOk THEN BOOLEAN ELSE {TRUE} :
       \E paOk \in IF ndOk /\ kaOk THEN BOOLEAN ELSE {TRUE} :
       \E ts \in {TcpStream(1, a, st.nodelay, st.keepalive)} :
          Constructed(try_from(ts, ndOk, kaOk, paOk), "try_from",
                      <<"args", [tcp_stream |-> ts,
                                 ok |-> <<ndOk, kaOk, paOk>>]>>)

Read ==
    /\ alive
    /\ \E c \in ConnIn : \E ndOk \in NdIn(c) : \E kaOk \in KaIn(c, ndOk) :
       \E out \in OutIn(c, ndOk, kaOk, IoOutcomes) :
          \E r \in {read(Self, c, ndOk, kaOk, out)} :
              Commit(r.s, "read", Unit, r.res)

Write ==
    /\ alive
    /\ \E c \in ConnIn : \E ndOk \in NdIn(c) : \E kaOk \in KaIn(c, ndOk) :
       \E out \in OutIn(c, ndOk, kaOk, IoOutcomes) :
          \E r \in {write(Self, c, ndOk, kaOk, out)} :
              Commit(r.s, "write", Unit, r.res)

Flush ==
    /\ alive
    /\ \E c \in ConnIn : \E ndOk \in NdIn(c) : \E kaOk \in KaIn(c, ndOk) :
       \E out \in OutIn(c, ndOk, kaOk, IoOutcomes) :
          \E r \in {flush(Self, c, ndOk, kaOk, out)} :
              Commit(r.s, "flush", Unit, r.res)

PollReadReady ==
    /\ alive
    /\ \E c \in ConnIn : \E ndOk \in NdIn(c) : \E kaOk \in KaIn(c, ndOk) :
       \E out \in OutIn(c, ndOk, kaOk, PollOutcomes) :
          \E r \in {poll_read_ready(Self, c, ndOk, kaOk, out)} :
              Commit(r.s, "poll_read_ready", Unit, r.res)

PollWriteReady ==
    /\ alive
    /\ \E c \in ConnIn : \E ndOk \in NdIn(c) : \E kaOk \in KaIn(c, ndOk) :
       \E out \in OutIn(c, ndOk, kaOk, PollOutcomes) :
          \E r \in {poll_write_ready(Self, c, ndOk, kaOk, out)} :
              Commit(r.s, "poll_write_ready", Unit, r.res)

PollPeek ==
    /\ alive
    /\ \E c \in ConnIn : \E ndOk \in NdIn(c) : \E kaOk \in KaIn(c, ndOk) :
       \E out \in OutIn(c, ndOk, kaOk, PollOutcomes) :
          \E r \in {poll_peek(Self, c, ndOk, kaOk, out)} :
              Commit(r.s, "poll_peek", Unit, r.res)

LocalAddr ==
    /\ alive
    /\ \E ok \in SockIn :
          \E r \in {local_addr(Self, ok)} :
              Commit(r.s, "local_addr", Unit, r.res)

PeerAddr ==
    /\ alive
    /\ \E ok \in SockIn :
          \E r \in {peer_addr(Self, ok, debug)} :
              Commit(r.s, "peer_addr", Unit, r.res)

Nodelay ==
    /\ alive
    /\ \E ok \in SockIn :
          \E r \in {nodelay(Self, ok, debug)} :
              Commit(r.s, "nodelay", Unit, r.res)

Keepalive ==
    /\ alive
    /\ \E ok \in SockIn :
          \E r \in {keepalive(Self, ok, debug)} :
              Commit(r.s, "keepalive", Unit, r.res)

SetNodelay ==
    /\ alive
    /\ \E v \in BOOLEAN, ok \in SockIn :
          \E r \in {set_nodelay(Self, v, ok)} :
              Commit(r.s, "set_nodelay", Bool(v), r.res)

SetKeepalive ==
    /\ alive
    /\ \E v \in KeepAlives, ok \in SockIn :
          \E r \in {set_keepalive(Self, v, ok)} :
              Commit(r.s, "set_keepalive", OptDuration(v), r.res)

SetTcpSettings ==
    /\ alive
    /\ \E v \in TcpStreamSettings, ndOk \in SockIn :
       \E kaOk \in IF ndOk THEN SockIn ELSE {TRUE} :
          \E r \in {set_tcp_settings(Self, v, ndOk, kaOk)} :
              Commit(r.s, "set_tcp_settings", <<"TcpStreamSettings", v>>, r.res)

Shutdown ==
    /\ alive
    /\ \E out \in IF Connected THEN {Ok(Unit), Err("ConnectionReset")}
                               ELSE {Ok(Unit)} :
          \E r \in {shutdown(Self, out)} :
              Commit(r.s, "shutdown", Unit, r.res)

AsyncWriteShutdown ==
    /\ alive
    /\ \E out \in IF Connected THEN {Ok(Unit), NotReady, Err("ConnectionReset")}
                               ELSE {Ok(Unit)} :
          \E r \in {AsyncWrite_shutdown(Self, out)} :
              Commit(r.s, "AsyncWrite::shutdown", Unit, r.res)

IsInTcpState ==
    /\ alive
    /\ Commit(Self, "is_in_tcp_state", Unit, Ok(Bool(is_in_tcp_state(Self))))

Next ==
    \/ Read
    \/ Write
    \/ Flush
    \/ PollReadReady
    \/ PollWriteReady
    \/ PollPeek
    \/ LocalAddr
    \/ PeerAddr
    \/ Nodelay
    \/ Keepalive
    \/ SetNodelay
    \/ SetKeepalive
    \/ SetTcpSettings
    \/ Shutdown
    \/ AsyncWriteShutdown
    \/ IsInTcpState

Spec == Init /\ [][Next]_vars

----------------------------------------------------------------------------
(* Properties.  ret describes the call that produced the current state:    *)
(* ret.entry is the wrapper as the call found it, the variables are the    *)
(* wrapper as the call left it.                                            *)

WasEstablished == ret.entry.state.tag = "TcpStream"
WasPending == ret.entry.state.tag = "ConnectFuture"
HardError == ret.res.r = "Err" /\ ret.res.kind # "WouldBlock"
Failed == ret.res.r = "Err"
\* The call's result is a success or a WouldBlock failure.
Soft == ret.res.r \in {"Ok", "NotReady"} \/ (Failed /\ ret.res.kind = "WouldBlock")
\* The call started a connection attempt.
DidReset == \E k \in 1..Len(ret.log) : ret.log[k].ev = "reset"
\* The call forwarded its I/O operation to connection id.
ForwardedTo(id) ==
    \E k \in 1..Len(ret.log) : ret.log[k].ev \in StreamOps /\ ret.log[k].id = id
\* The state is exactly the one the call found.
SameState ==
    /\ state.tag = ret.entry.state.tag
    /\ state = ret.entry.state

\* C1: a stream operation called on an Established wrapper whose underlying
\* operation fails with a non-WouldBlock error leaves the wrapper Pending
\* (is_in_tcp_state() false) on a brand-new, unpolled connection attempt, with
\* the old connection dropped.
C1_ResetOnHardError ==
    (ret.op \in StreamOps /\ WasEstablished /\ HardError)
    => /\ ~is_in_tcp_state(Self)
       /\ state.tag = "ConnectFuture"
       /\ ~state.spent
       /\ state.id = ret.entry.nextId
       /\ state.id # ret.entry.state.id
       /\ state.id \notin dropped
       /\ ret.entry.state.id \in dropped
       /\ ForwardedTo(ret.entry.state.id)

C1_Witness ==
    /\ ret.op = "write" /\ WasEstablished /\ HardError
    /\ state.tag = "ConnectFuture"

\* C2 as claimed: a stream operation whose result is a success or a
\* WouldBlock failure leaves the state variant, the connection or attempt,
\* the target address and the cached settings unchanged.
C2_Original ==
    (ret.op \in StreamOps /\ Soft)
    => /\ SameState
       /\ addr = ret.entry.addr
       /\ settings = ret.entry.settings

\* C2 as amended: a stream operation whose result is a success or a
\* WouldBlock failure starts no connection attempt and leaves the target
\* address and the cached settings unchanged; called on an Established wrapper
\* it leaves the connection and its options untouched; called on a Pending
\* wrapper it either leaves the attempt in place or moves to Established on the
\* connection that very attempt produced.
C2_NoResetWithoutHardError ==
    (ret.op \in StreamOps /\ Soft)
    => /\ ~DidReset
       /\ nextId = ret.entry.nextId
       /\ addr = ret.entry.addr
       /\ settings = ret.entry.settings
       /\ WasEstablished => SameState
       /\ WasPending =>
            \/ SameState
            \/ /\ state.tag = "TcpStream"
               /\ state.id = ret.entry.state.id
               /\ state.peer = ret.entry.state.target
               /\ ret.resolved # <<>>

C2_Witness ==
    /\ ret.op = "read" /\ WasEstablished
    /\ Failed /\ ret.res.kind = "WouldBlock"
    /\ ret.entry.state.id = 2
    /\ state.tag = "TcpStream"

\* C3: whenever poll_into_tcp_stream turns a ConnectFuture into Ready, the
\* new socket's no-delay and keep-alive equal the cached settings of that
\* moment.
C3_ReplayedSettings ==
    ret.resolved # <<>>
    => /\ ret.resolved[1].nodelay = ret.resolved[1].settings.nodelay
       /\ ret.resolved[1].keepalive = ret.resolved[1].settings.keepalive

C3_Witness ==
    /\ ret.resolved # <<>>
    /\ ret.resolved[1].nodelay
    /\ ret.resolved[1].keepalive = Some(1)
    /\ ret.resolved[1].id = 2

\* C4: the target address never changes, and every connection attempt (the
\* initial dial and every reset) and every connection held targets it.
C4_TargetFixed ==
    /\ addr = ret.entry.addr
    /\ state.tag = "ConnectFuture" => state.target = addr
    /\ state.tag = "TcpStream" => state.peer = addr

C4_Witness ==
    /\ state.tag = "ConnectFuture"
    /\ state.id = 3
    /\ dropped = {1, 2}
    /\ state.target = addr

\* C5: set_keepalive(v) succeeding on an Established wrapper puts v on the
\* live socket and in the cached settings (so that a later reconnect replays v).
C5_KeepaliveCached ==
    (ret.op = "set_keepalive" /\ WasEstablished /\ ret.res.r = "Ok")
    => /\ state.keepalive = ret.arg[2]
       /\ settings.keepalive = ret.arg[2]

\* C6: set_nodelay(v) and set_keepalive(v) called on a Pending wrapper return
\* success, leave it Pending and record v in the cached settings.
C6_SettersCacheWhilePending ==
    /\ (ret.op = "set_nodelay" /\ WasPending)
       => ret.res.r = "Ok" /\ SameState /\ settings.nodelay = ret.arg[2]
    /\ (ret.op = "set_keepalive" /\ WasPending)
       => ret.res.r = "Ok" /\ SameState /\ settings.keepalive = ret.arg[2]

\* C7: set_tcp_settings leaves both cached fields as they were whenever it
\* returns an error, and makes the cache equal its argument whenever it
\* returns success.
C7_BulkSetterAtomic ==
    ret.op = "set_tcp_settings"
    => /\ Failed => settings = ret.entry.settings
       /\ ret.res.r = "Ok" => settings = ret.arg[2]

\* C8: on a Pending wrapper peer_addr() returns the target address, nodelay()
\* the cached no-delay flag, keepalive() the cached keep-alive, local_addr()
\* fails with NotConnected, and none of them changes the wrapper.
C8_PendingAccessors ==
    (WasPending /\ ret.op \in {"peer_addr", "nodelay", "keepalive", "local_addr"})
    => /\ SameState
       /\ addr = ret.entry.addr
       /\ settings = ret.entry.settings
       /\ nextId = ret.entry.nextId
       /\ ret.op = "peer_addr" => ret.res = Ok(SocketAddr(addr))
       /\ ret.op = "nodelay" => ret.res = Ok(Bool(settings.nodelay))
       /\ ret.op = "keepalive" => ret.res = Ok(OptDuration(settings.keepalive))
       /\ ret.op = "local_addr" => ret.res = Err("NotConnected")

C8_Witness ==
    /\ WasPending /\ ret.op = "nodelay"
    /\ ret.res = Ok(Bool(TRUE))
    /\ state.id = 2

\* C10: whenever poll_read_ready, poll_write_ready or poll_peek returns an
\* error, the wrapper is in the ConnectFuture state when the call returns.
C10_PollErrorResets ==
    (ret.op \in PollOps /\ Failed) => state.tag = "ConnectFuture"

----------------------------------------------------------------------------
(* Liveness.  The caller reads, writes and changes settings.  It keeps     *)
(* calling read or write on a connected wrapper (weak fairness of those    *)
(* calls), and connection attempts eventually succeed together with the    *)
(* replay of the settings (weak fairness of the calls on a Pending wrapper *)
(* that find the attempt complete and both setsockopt calls successful).   *)

ReadResolves ==
    /\ alive /\ ~Connected
    /\ \E out \in IoOutcomes :
          \E r \in {read(Self, "Ready", TRUE, TRUE, out)} :
              Commit(r.s, "read", Unit, r.res)

WriteResolves ==
    /\ alive /\ ~Connected
    /\ \E out \in IoOutcomes :
          \E r \in {write(Self, "Ready", TRUE, TRUE, out)} :
              Commit(r.s, "write", Unit, r.res)

LiveNext ==
    \/ Read
    \/ Write
    \/ SetNodelay
    \/ SetKeepalive

LiveSpec ==
    /\ Init
    /\ [][LiveNext]_vars
    /\ WF_vars(Connected /\ (Read \/ Write))
    /\ WF_vars(ReadResolves \/ WriteResolves)

\* C9: from every reachable Pending state, holding attempt i, a caller that
\* keeps reading or writing eventually has an I/O operation forwarded to a
\* connection made by attempt i or by a later one, whatever failures come
\* first.
C9_EventuallyForwarded ==
    \A i \in 1..MaxConns :
        (state.tag = "ConnectFuture" /\ state.id = i)
        ~> (\E j \in i..MaxConns : ForwardedTo(j))

\* A reconnect after two failed attempts: the third attempt's connection
\* receives the write.
C9_Witness ==
    /\ ret.op = "write"
    /\ WasPending /\ ret.entry.state.id = 3
    /\ dropped = {1, 2}
    /\ ret.resolved # <<>>
    /\ ForwardedTo(3)
    /\ state.tag = "TcpStream"

\* C11: when, during a stream operation, the connection attempt, a setsockopt
\* of the settings replay or the forwarded I/O operation fails, nothing more
\* is attempted and the call returns an Err of exactly that failure's kind,
\* whether or not the wrapper was reset on the way.
C11_FailureReturned ==
    (ret.op \in StreamOps /\ ret.errs # <<>>)
        => /\ Len(ret.errs) = 1
           /\ ret.errs[1].ev \in {"cf_poll", "set_nodelay", "set_keepalive", ret.op}
           /\ ret.res = Err(ret.errs[1].kind)

\* A flush on an established connection fails with ConnectionReset; the
\* wrapper is reset and the call still returns ConnectionReset.
C11_Witness ==
    /\ ret.op = "flush" /\ WasEstablished
    /\ ret.errs # <<>> /\ ret.errs[1].ev = "flush"
    /\ ret.errs[1].kind = "ConnectionReset"
    /\ DidReset
    /\ ret.res = Err("ConnectionReset")

\* C12: AsyncWrite::shutdown called on an Established wrapper whose
\* underlying shutdown fails with a non-WouldBlock error returns that error
\* and leaves the wrapper Pending on a new connection attempt, the old
\* connection dropped, as every other stream operation does.
C12_ShutdownResets ==
    (ret.op = "AsyncWrite::shutdown" /\ WasEstablished /\ HardError)
        => /\ state.tag = "ConnectFuture"
           /\ state.id = ret.entry.nextId
           /\ ret.entry.state.id \in dropped

\* C13: a shutdown called while the wrapper is Pending, through
\* shutdown(how) or through AsyncWrite::shutdown, does not panic: it returns
\* Ok or a NotConnected error, and the wrapper is still there, unchanged.
C13_PendingShutdownSafe ==
    (ret.op \in {"shutdown", "AsyncWrite::shutdown"} /\ WasPending)
        => /\ ret.res.r # "Panic"
           /\ alive
           /\ ret.res.r = "Ok" \/ ret.res = Err("NotConnected")
           /\ SameState

\* The arguments of the constructor call.
CtorArgs == ret.arg[2]

\* C14: right after construction, a wrapper built by try_from (from_std) is
\* Established on the socket it was given, its target address is the
\* socket's peer address and its cached settings are the socket's no-delay
\* and keep-alive; when one of the three reads of the socket fails the
\* construction returns an error and there is no wrapper.  A wrapper built by
\* connect_with_settings is Pending on an unpolled attempt to the given
\* address, with the given address and settings cached as they were given.
C14_InitialState ==
    /\ (ret.op = "try_from" /\ \A k \in 1..3 : CtorArgs.ok[k])
          => /\ alive /\ ret.res = Ok(Wrapper)
             /\ state.tag = "TcpStream"
             /\ state.id = CtorArgs.tcp_stream.id
             /\ state.peer = CtorArgs.tcp_stream.peer
             /\ state.nodelay = CtorArgs.tcp_stream.nodelay
             /\ state.keepalive = CtorArgs.tcp_stream.keepalive
             /\ addr = CtorArgs.tcp_stream.peer
             /\ settings = [nodelay |-> CtorArgs.tcp_stream.nodelay,
                            keepalive |-> CtorArgs.tcp_stream.keepalive]
    /\ (ret.op = "try_from" /\ \E k \in 1..3 : ~CtorArgs.ok[k])
          => /\ ~alive
             /\ ret.res.r = "Err"
    /\ ret.op = "connect_with_settings"
          => /\ alive /\ ret.res = Ok(Wrapper)
             /\ state.tag = "ConnectFuture" /\ ~state.spent
             /\ state.target = CtorArgs.addr
             /\ addr = CtorArgs.addr
             /\ settings = CtorArgs.settings

\* A wrapper adopted from a socket with no-delay on and a keep-alive of one
\* second.
C14_Witness ==
    /\ ret.op = "try_from" /\ alive
    /\ CtorArgs.tcp_stream.nodelay
    /\ CtorArgs.tcp_stream.keepalive = Some(1)
    /\ state.tag = "TcpStream"
    /\ settings = [nodelay |-> TRUE, keepalive |-> Some(1)]

\* The last call was a stream operation that found the wrapper Pending, saw
\* its connection attempt succeed and then a setsockopt of the replay fail.
ReplayFailed ==
    /\ ret.op \in StreamOps /\ WasPending
    /\ ret.errs # <<>>
    /\ ret.errs[1].ev \in {"set_nodelay", "set_keepalive"}

C16_ForwardedAfterReplay ==
    (ret.op \in StreamOps /\ ForwardedTo(ret.entry.state.id))
        => IF WasPending
           THEN /\ ret.resolved # <<>>
                /\ \E i, j, k \in 1..Len(ret.log) :
                      /\ i < j /\ j < k
                      /\ ret.log[i] = Ev("set_nodelay", ret.entry.state.id)
                      /\ ret.log[j] = Ev("set_keepalive", ret.entry.state.id)
                      /\ ret.log[k] = Ev(ret.op, ret.entry.state.id)
           ELSE ret.entry.state.replay # "none"

\* The number of connection attempts the last call started.
ResetCount == Cardinality({k \in 1..Len(ret.log) : ret.log[k].ev = "reset"})

\* C17: no call resets the wrapper more than once: it starts at most one
\* connection attempt and drops at most one connection.  When the connection
\* attempt of a stream operation fails, the wrapper is reset exactly once,
\* the failure is returned, and the attempt that reset started is the one
\* the wrapper holds afterwards.
C17_AtMostOneReset ==
    /\ ResetCount <= 1
    /\ Cardinality(dropped \ ret.entry.dropped) <= 1
    /\ (ret.op \in StreamOps /\ ret.errs # <<>> /\ ret.errs[1].ev = "cf_poll")
          => /\ ResetCount = 1
             /\ ret.res = Err(ret.errs[1].kind)
             /\ nextId = ret.entry.nextId + 1
             /\ state.tag = "ConnectFuture"
             /\ state.id = ret.entry.nextId

\* A read whose connection attempt is refused: one reset, the next attempt
\* in place.
C17_Witness ==
    /\ ret.op = "read" /\ WasPending
    /\ ret.errs # <<>> /\ ret.errs[1].ev = "cf_poll"
    /\ ret.res = Err("ConnectionRefused")
    /\ ResetCount = 1
    /\ dropped = ret.entry.dropped \cup {ret.entry.state.id}

\* The polls of a connection attempt made by the last call.
CfPolls == {k \in 1..Len(ret.log) : ret.log[k].ev = "cf_poll"}

\* C18: between calls a Pending wrapper holds an attempt that has not
\* completed.  A call polls at most one attempt, once, and only the
\* unfinished attempt it found; when that poll completes, with a connection
\* or with an error, the wrapper no longer holds that attempt; and no stream
\* operation ends in the panic of polling a completed future.
C18_NoSpentAttempt ==
    /\ state.tag = "ConnectFuture" => ~state.spent
    /\ ret.op \in StreamOps => ret.res.r # "Panic"
    /\ Cardinality(CfPolls) <= 1
    /\ \A k \in CfPolls :
          /\ WasPending /\ ~ret.entry.state.spent
          /\ ret.log[k].id = ret.entry.state.id
          /\ ret.entry.state.id \notin ret.entry.dropped
          /\ (state.tag = "ConnectFuture" /\ state.id = ret.entry.state.id)
                => /\ ret.errs = <<>>
                   /\ ret.res \in {NotReady, Err("WouldBlock")}

\* A refused attempt has been replaced by the next, unpolled one.
C18_Witness ==
    /\ ret.op = "poll_read_ready" /\ WasPending
    /\ CfPolls # {}
    /\ ret.res = Err("ConnectionRefused")
    /\ state.tag = "ConnectFuture" /\ ~state.spent
    /\ state.id = ret.entry.nextId
    /\ ret.entry.state.id \in dropped

\* The socket calls of the last call: every logged event but the reset.
SocketCalls == {k \in 1..Len(ret.log) : ret.log[k].ev # "reset"}

\* C19: a connection that a reset has discarded receives nothing more.  The
\* wrapper never holds a discarded connection; every socket call of a call
\* (a poll of the attempt, an I/O operation, a setsockopt, an accessor's
\* read, a shutdown) goes to the connection the call found, one that is
\* newer than every connection discarded before; and a reset is the last
\* thing a call does to a connection.
C19_NothingForwardedToDropped ==
    /\ state.id \notin dropped
    /\ \A d \in dropped : d < state.id
    /\ \A k \in SocketCalls :
          /\ ret.log[k].id = ret.entry.state.id
          /\ ret.log[k].id \notin ret.entry.dropped
          /\ \A d \in ret.entry.dropped : d < ret.log[k].id
    /\ \A k \in 1..Len(ret.log) : ret.log[k].ev = "reset" => k = Len(ret.log)

\* After a reset has discarded connection 1, a write is forwarded to the
\* connection made by the next attempt.
C19_Witness ==
    /\ ret.op = "write" /\ WasEstablished
    /\ ret.entry.dropped = {1}
    /\ ret.entry.state.id = 2
    /\ ret.log = <<Ev("write", 2)>>

\* C20: in a build with debug assertions, peer_addr(), nodelay() and
\* keepalive() called on an Established wrapper never fail their debug
\* assertion: each returns the socket's value or the socket's error.
C20_AssertionsHold ==
    (ret.op \in {"peer_addr", "nodelay", "keepalive"} /\ WasEstablished)
        => ret.res.r # "Panic"

====
